---- MODULE Spec2Model ----
(***************************************************************************)
(* Model of the two control loops of the Server-pi5 controllers:           *)
(*   joystick_control()  (controllers/joystick_control.py)                 *)
(*   camera_control()    (controllers/camera_control.py)                   *)
(* Spec is the gamepad loop, CamSpec the camera loop with its STOP timers,  *)
(* CamFpsSpec adds the rate monitor thread, CamLiveSpec the fairness of    *)
(* the timers, and MixerSpec applies the dead zone and the mixer to every  *)
(* axis reading of the grid.  The two functions share no state, so each    *)
(* specification leaves the other variables untouched.                     *)
(***************************************************************************)
EXTENDS Integers, Sequences, FiniteSets

VARIABLES
    \* ---- joystick_control ----
    jpc,           \* position of joystick_control
    motorBound,    \* local `motor` has been assigned (line 23)
    servoBound,    \* local `servo` has been assigned (line 24)
    channelBound,  \* locals SERVO_NECK_CHANNEL .. SERVO_NECK_NEUTRAL assigned (56-61)
    loopStarted,   \* `while True:` (line 70) has been entered
    events,        \* the list returned by pygame.event.get() in this tick
    evIndex,       \* position of the `for event in` loop in that list
    motorLast,     \* last command accepted by motor.setMotorModel, <<>> if none
    servoLast,     \* last command accepted by servo.setServoPwm, <<>> if none
    exitKind,      \* how the try block was left
    rejected,      \* the command a collaborator rejected inside a tick, <<>> if none
    cleanupMotor,  \* outcome of line 154
    cleanupServo,  \* outcome of line 156
    \* ---- camera_control ----
    cpc,           \* position of camera_control (main thread)
    picam2Bound,   \* local `picam2` has been assigned (line 21)
    stops,         \* number of calls of picam2.stop()
    stopRaised,    \* picam2.stop() raised
    cexit,         \* how camera_control's try block was left
    frame,         \* the captured frame of this iteration
    frame_count,   \* nonlocal frame_count
    start_time,    \* nonlocal start_time
    fps,           \* nonlocal fps, kept as <<frames, elapsed>>
    loaded,        \* value of frame_count read by `frame_count += 1`, -1 outside
    mpc,           \* position of the update_fps thread
    wake,          \* time at which the thread's sleep ends
    elapsed_time,  \* local of update_fps
    now,           \* time.time(), in units of 0.5 s
    audio_queue,   \* commands put on audio_queue, in order
    timers,        \* started threading.Timer objects that have not fired
    detected,      \* frames in which markers were detected
    framesDone,    \* iterations that completed `frame_count += 1`
    reported,      \* sum of the frame counts reported by update_fps
    \* ---- the dead zone and the mixer of joystick_control, on their own ----
    axes,          \* raw readings <<get_axis(1), get_axis(0), get_axis(3)>>
    filtered,      \* the readings after lines 109-114, <<>> before
    passes,        \* how many times lines 109-114 were applied to them
    wheel          \* the arguments of motor.setMotorModel for them, <<>> before

jvars == <<jpc, motorBound, servoBound, channelBound, loopStarted, events,
           evIndex, motorLast,
           servoLast, exitKind, rejected, cleanupMotor, cleanupServo>>

cvars == <<cpc, picam2Bound, stops, stopRaised, cexit, frame, frame_count,
           start_time, fps, loaded, mpc, wake, elapsed_time, now, audio_queue,
           timers, detected, framesDone, reported>>

mvars == <<axes, filtered, passes, wheel>>

vars == <<jvars, cvars, mvars>>

----------------------------------------------------------------------------
(* Bounds of the model *)

\* axis readings are the multiples of 1/AxisScale in [-1, 1]
AxisScale == 10
\* longest list pygame.event.get() returns in one tick
MaxEvents == 2

(* Constants of joystick_control *)

\* thresholds 0.2, written in units of 1/DeadZoneDen
DeadZoneDen == 10
DEAD_ZONE_MOVEMENT == 2
DEAD_ZONE_TURN == 2
MAX_PWM == 4095
\* the factor 0.5 of duty_turn is 1/TurnScaleDen
TurnScaleDen == 2
SERVO_NECK_CHANNEL == "1"
SERVO_NECK_UP == 160
SERVO_NECK_DOWN == 120
SERVO_NECK_NEUTRAL == 90
BUTTON_DOWN == 6
BUTTON_UP == 7
\* a button the loop has no mapping for
BUTTON_OTHER == 5

----------------------------------------------------------------------------
(* Pure helpers of joystick_control *)

Abs(v) == IF v < 0 THEN -v ELSE v

\* int(n / d) of Python: truncation toward zero
Trunc(n, d) == IF n >= 0 THEN n \div d ELSE -((-n) \div d)

AxisValues == (-AxisScale) .. AxisScale

\* the readings a tick of the loop draws from: rest, the smallest step, half
\* and full deflection, both ways
LoopAxisValues ==
    {-AxisScale, -(AxisScale \div 2), -1, 0, 1, AxisScale \div 2, AxisScale}

DeadZoneInclusive(k, zone) ==
    IF Abs(k) * DeadZoneDen <= zone * AxisScale THEN 0 ELSE k

\* lines 109-114: `if abs(v) < DEAD_ZONE: v = 0`, v = k / AxisScale
DeadZone(k, zone) == IF Abs(k) * DeadZoneDen < zone * AxisScale THEN 0 ELSE k

\* lines 117, 122: y = -left_vertical; duty_y = int(y * MAX_PWM)
DutyY(left_vertical) == Trunc((-left_vertical) * MAX_PWM, AxisScale)
\* lines 118, 123
DutyX(left_horizontal) == Trunc(left_horizontal * MAX_PWM, AxisScale)
\* lines 119, 124: duty_turn = int(turn * MAX_PWM * 0.5)
DutyTurnFull(right_horizontal) == Trunc(right_horizontal * MAX_PWM, AxisScale)

DutyTurn(right_horizontal) ==
    Trunc(right_horizontal * MAX_PWM, AxisScale * TurnScaleDen)

Min(a, b) == IF a < b THEN a ELSE b
Max(a, b) == IF a > b THEN a ELSE b

ClampNone(v) == v

\* lines 133-136: max(min(v, MAX_PWM), -MAX_PWM)
Clamp(v) == Max(Min(v, MAX_PWM), -MAX_PWM)

\* lines 109-142: the arguments of motor.setMotorModel, in call order
\* (front left, back left, front right, back right)
WheelCommand(a1, a0, a3) ==
    LET left_vertical == DeadZone(a1, DEAD_ZONE_MOVEMENT)
        left_horizontal == DeadZone(a0, DEAD_ZONE_MOVEMENT)
        right_horizontal == DeadZone(a3, DEAD_ZONE_TURN)
        duty_y == DutyY(left_vertical)
        duty_x == DutyX(left_horizontal)
        duty_turn == DutyTurn(right_horizontal)
        duty_front_left == Clamp(duty_y + duty_x + duty_turn)
        duty_front_right == Clamp(duty_y - duty_x - duty_turn)
        duty_back_left == Clamp(duty_y + duty_x + duty_turn)
        duty_back_right == Clamp(duty_y - duty_x - duty_turn)
    IN <<duty_front_left, duty_back_left, duty_front_right, duty_back_right>>

ZeroCommand == <<0, 0, 0, 0>>

NeutralCommand == <<SERVO_NECK_CHANNEL, SERVO_NECK_NEUTRAL>>

Buttons == {BUTTON_OTHER, BUTTON_DOWN, BUTTON_UP}

\* the events the loop distinguishes (lines 72, 75, 87, 94)
EventKinds ==
    {<<"QUIT", 0>>, <<"JOYHATMOTION", 0>>}
    \cup {<<"JOYBUTTONDOWN", b>> : b \in Buttons}
    \cup {<<"JOYBUTTONUP", b>> : b \in Buttons}

RECURSIVE SeqsUpTo(_, _)
SeqsUpTo(S, n) ==
    IF n = 0 THEN {<<>>}
    ELSE LET shorter == SeqsUpTo(S, n - 1)
         IN shorter \cup {Append(s, e) : s \in shorter, e \in S}

EventBatches == SeqsUpTo(EventKinds, MaxEvents)

\* positions inside `while True:` (lines 70-145)
LoopPcs == {"poll", "events", "drive"}
\* positions inside the try block (lines 22-145)
TryPcs == {"init_motor", "init_servo", "init_joystick", "servo_start"} \cup LoopPcs
\* positions inside the finally block (lines 152-160)
FinallyPcs == {"finally_motor", "finally_servo", "pygame_quit"}

----------------------------------------------------------------------------
(* joystick_control *)

JInit ==
    /\ jpc = "init_motor"
    /\ motorBound = FALSE
    /\ servoBound = FALSE
    /\ channelBound = FALSE
    /\ loopStarted = FALSE
    /\ events = <<>>
    /\ evIndex = 1
    /\ motorLast = <<>>
    /\ servoLast = <<>>
    /\ exitKind = "none"
    /\ rejected = <<>>
    /\ cleanupMotor = "none"
    /\ cleanupServo = "none"

LeaveTryInterruptSkipsCleanup(kind) ==
    /\ jpc' = IF kind = "interrupt" THEN "pygame_quit" ELSE "finally_motor"
    /\ exitKind' = kind

\* leaving the try block: the except clauses only log, then finally runs
LeaveTry(kind) ==
    /\ jpc' = "finally_motor"
    /\ exitKind' = kind

\* line 23: motor = Motor()
InitMotor ==
    /\ jpc = "init_motor"
    /\ \/ /\ motorBound' = TRUE
          /\ jpc' = "init_servo"
          /\ UNCHANGED exitKind
       \/ /\ LeaveTry("exception")
          /\ UNCHANGED motorBound
    /\ UNCHANGED <<servoBound, channelBound, loopStarted, events,
                   evIndex, motorLast, servoLast,
                   rejected, cleanupMotor, cleanupServo>>

\* line 24: servo = Servo()
InitServo ==
    /\ jpc = "init_servo"
    /\ \/ /\ servoBound' = TRUE
          /\ jpc' = "init_joystick"
          /\ UNCHANGED exitKind
       \/ /\ LeaveTry("exception")
          /\ UNCHANGED servoBound
    /\ UNCHANGED <<motorBound, channelBound, loopStarted, events,
                   evIndex, motorLast, servoLast,
                   rejected, cleanupMotor, cleanupServo>>

\* lines 27-61: pygame and joystick initialisation, the constants
InitJoystick ==
    /\ jpc = "init_joystick"
    /\ \/ \* joystick_count > 0
          /\ channelBound' = TRUE
          /\ jpc' = "servo_start"
          /\ UNCHANGED exitKind
       \/ \* joystick_count = 0: pygame.quit(); return (lines 44-46)
          /\ LeaveTry("no_joystick")
          /\ UNCHANGED channelBound
       \/ \* pygame raised
          /\ LeaveTry("exception")
          /\ UNCHANGED channelBound
    /\ UNCHANGED <<motorBound, servoBound, loopStarted, events, evIndex,
                   motorLast, servoLast, rejected, cleanupMotor, cleanupServo>>

\* line 64: servo.setServoPwm(SERVO_NECK_CHANNEL, SERVO_NECK_NEUTRAL)
ServoStart ==
    /\ jpc = "servo_start"
    /\ \/ /\ servoLast' = NeutralCommand
          /\ jpc' = "poll"
          /\ loopStarted' = TRUE
          /\ UNCHANGED exitKind
       \/ /\ LeaveTry("exception")
          /\ UNCHANGED <<servoLast, loopStarted>>
    /\ UNCHANGED <<motorBound, servoBound, channelBound, events, evIndex,
                   motorLast,
                   rejected, cleanupMotor, cleanupServo>>

\* line 71: pygame.event.get()
Poll ==
    /\ jpc = "poll"
    /\ \E batch \in EventBatches : events' = batch
    /\ evIndex' = 1
    /\ jpc' = "events"
    /\ UNCHANGED <<motorBound, servoBound, channelBound, loopStarted, motorLast,
                   servoLast,
                   exitKind, rejected, cleanupMotor, cleanupServo>>

ServoTargetUnmappedResets(event) ==
    IF event[1] = "JOYBUTTONDOWN" /\ event[2] = BUTTON_DOWN THEN SERVO_NECK_DOWN
    ELSE IF event[1] = "JOYBUTTONDOWN" /\ event[2] = BUTTON_UP THEN SERVO_NECK_UP
    ELSE IF event[1] = "JOYBUTTONUP" THEN SERVO_NECK_NEUTRAL
    ELSE 0

ServoTargetHatTilts(event) ==
    IF event[1] = "JOYBUTTONDOWN" /\ event[2] = BUTTON_DOWN THEN SERVO_NECK_DOWN
    ELSE IF event[1] = "JOYBUTTONDOWN" /\ event[2] = BUTTON_UP THEN SERVO_NECK_UP
    ELSE IF event[1] = "JOYBUTTONUP" /\ event[2] \in {BUTTON_DOWN, BUTTON_UP}
         THEN SERVO_NECK_NEUTRAL
    ELSE IF event[1] = "JOYHATMOTION" THEN SERVO_NECK_UP
    ELSE 0

ServoTargetSwapped(event) ==
    IF event[1] = "JOYBUTTONDOWN" /\ event[2] = BUTTON_DOWN THEN SERVO_NECK_UP
    ELSE IF event[1] = "JOYBUTTONDOWN" /\ event[2] = BUTTON_UP THEN SERVO_NECK_DOWN
    ELSE IF event[1] = "JOYBUTTONUP" /\ event[2] \in {BUTTON_DOWN, BUTTON_UP}
         THEN SERVO_NECK_NEUTRAL
    ELSE 0

\* lines 75-92: the angle an event commands, 0 when it commands none
ServoTarget(event) ==
    IF event[1] = "JOYBUTTONDOWN" /\ event[2] = BUTTON_DOWN THEN SERVO_NECK_DOWN
    ELSE IF event[1] = "JOYBUTTONDOWN" /\ event[2] = BUTTON_UP THEN SERVO_NECK_UP
    ELSE IF event[1] = "JOYBUTTONUP" /\ event[2] \in {BUTTON_DOWN, BUTTON_UP}
         THEN SERVO_NECK_NEUTRAL
    ELSE 0

\* lines 71-97: one iteration of `for event in pygame.event.get()`
ProcessEvent ==
    /\ jpc = "events"
    /\ evIndex <= Len(events)
    /\ LET event == events[evIndex]
           angle == ServoTarget(event)
       IN IF event[1] = "QUIT"
          THEN \* line 73: return
               /\ LeaveTry("quit")
               /\ UNCHANGED <<evIndex, servoLast, rejected>>
          ELSE IF angle = 0
          THEN \* logged only
               /\ evIndex' = evIndex + 1
               /\ UNCHANGED <<jpc, exitKind, servoLast, rejected>>
          ELSE \/ \* servo.setServoPwm accepted
                  /\ servoLast' = <<SERVO_NECK_CHANNEL, angle>>
                  /\ evIndex' = evIndex + 1
                  /\ UNCHANGED <<jpc, exitKind, rejected>>
               \/ \* servo.setServoPwm raised: except Exception (line 149)
                  /\ rejected' = <<"servo", SERVO_NECK_CHANNEL, angle>>
                  /\ LeaveTry("exception")
                  /\ UNCHANGED <<evIndex, servoLast>>
    /\ UNCHANGED <<motorBound, servoBound, channelBound, loopStarted, events,
                   motorLast, cleanupMotor, cleanupServo>>

EndForEarly ==
    /\ jpc = "events"
    /\ events' = <<>>
    /\ evIndex' = 1
    /\ jpc' = "drive"
    /\ UNCHANGED <<motorBound, servoBound, channelBound, loopStarted, motorLast,
                   servoLast, exitKind, rejected, cleanupMotor, cleanupServo>>

\* line 71: the list is exhausted, the for statement ends and drops it
EndFor ==
    /\ jpc = "events"
    /\ evIndex > Len(events)
    /\ events' = <<>>
    /\ evIndex' = 1
    /\ jpc' = "drive"
    /\ UNCHANGED <<motorBound, servoBound, channelBound, loopStarted, motorLast,
                   servoLast, exitKind, rejected, cleanupMotor, cleanupServo>>

\* lines 99-145: read the axes, mix, send the wheel command, clock.tick
Drive ==
    /\ jpc = "drive"
    /\ \/ \E a1, a0, a3 \in LoopAxisValues :
            LET cmd == WheelCommand(a1, a0, a3)
            IN \/ \* motor.setMotorModel accepted
                  /\ motorLast' = cmd
                  /\ jpc' = "poll"
                  /\ UNCHANGED <<exitKind, rejected>>
               \/ \* motor.setMotorModel raised: except Exception (line 149)
                  /\ rejected' = <<"motor">> \o cmd
                  /\ LeaveTry("exception")
                  /\ UNCHANGED motorLast
       \/ \* joystick.get_axis raised
          /\ LeaveTry("exception")
          /\ UNCHANGED <<motorLast, rejected>>
    /\ UNCHANGED <<motorBound, servoBound, channelBound, loopStarted, events,
                   evIndex, servoLast,
                   cleanupMotor, cleanupServo>>

\* line 147: KeyboardInterrupt raised anywhere inside the try block
Interrupt ==
    /\ jpc \in TryPcs
    /\ LeaveTry("interrupt")
    /\ UNCHANGED <<motorBound, servoBound, channelBound, loopStarted, events,
                   evIndex, motorLast,
                   servoLast, rejected, cleanupMotor, cleanupServo>>

\* line 154: motor.setMotorModel(0, 0, 0, 0) inside the inner try
FinallyMotor ==
    /\ jpc = "finally_motor"
    /\ IF ~motorBound
       THEN \* UnboundLocalError, caught at line 158
            /\ cleanupMotor' = "unbound"
            /\ jpc' = "pygame_quit"
            /\ UNCHANGED motorLast
       ELSE \/ /\ motorLast' = ZeroCommand
               /\ cleanupMotor' = "accepted"
               /\ jpc' = "finally_servo"
            \/ \* the call raised, caught at line 158
               /\ cleanupMotor' = "rejected"
               /\ jpc' = "pygame_quit"
               /\ UNCHANGED motorLast
    /\ UNCHANGED <<motorBound, servoBound, channelBound, loopStarted, events,
                   evIndex, servoLast,
                   exitKind, rejected, cleanupServo>>

\* line 156: servo.setServoPwm(SERVO_NECK_CHANNEL, SERVO_NECK_NEUTRAL)
FinallyServo ==
    /\ jpc = "finally_servo"
    /\ IF ~servoBound \/ ~channelBound
       THEN \* UnboundLocalError, caught at line 158
            /\ cleanupServo' = "unbound"
            /\ UNCHANGED servoLast
       ELSE \/ /\ servoLast' = NeutralCommand
               /\ cleanupServo' = "accepted"
            \/ /\ cleanupServo' = "rejected"
               /\ UNCHANGED servoLast
    /\ jpc' = "pygame_quit"
    /\ UNCHANGED <<motorBound, servoBound, channelBound, loopStarted, events,
                   evIndex, motorLast,
                   exitKind, rejected, cleanupMotor>>

\* line 160: pygame.quit(), then the function returns
PygameQuit ==
    /\ jpc = "pygame_quit"
    /\ jpc' = "returned"
    /\ UNCHANGED <<motorBound, servoBound, channelBound, loopStarted, events,
                   evIndex, motorLast,
                   servoLast, exitKind, rejected, cleanupMotor, cleanupServo>>

\* KeyboardInterrupt inside the finally block: nothing catches it
InterruptFinally ==
    /\ jpc \in FinallyPcs
    /\ jpc' = "raised"
    /\ UNCHANGED <<motorBound, servoBound, channelBound, loopStarted, events,
                   evIndex, motorLast,
                   servoLast, exitKind, rejected, cleanupMotor, cleanupServo>>

----------------------------------------------------------------------------
(* camera_control *)

\* bound on the iterations of `while True:` that process a frame
MaxFrames == 2
\* bound on time.time(), in units of 0.5 s
MaxTime == 5

\* threading.Timer(2.0, ...): 2.0 s in units of 0.5 s (line 92)
STOP_DELAY == 4
\* time.sleep(0.5) of update_fps (line 45)
FPS_SLEEP == 1

PLAY == "PLAY_AR_SOUND"
STOP == "STOP_AR_SOUND"

\* positions inside the try block (lines 20-97)
CTryPcs == {"create", "start", "setup", "capture", "detect", "imwrite",
            "put", "timer", "count_load", "count_store"}
\* positions inside the finally block (lines 104-112)
CFinallyPcs == {"finally", "destroy"}

RECURSIVE Count(_, _)
Count(q, c) ==
    IF q = <<>> THEN 0
    ELSE (IF Head(q) = c THEN 1 ELSE 0) + Count(Tail(q), c)

CInit ==
    /\ cpc = "create"
    /\ picam2Bound = FALSE
    /\ stops = 0
    /\ stopRaised = FALSE
    /\ cexit = "none"
    /\ frame = "none"
    /\ frame_count = 0
    /\ start_time = 0
    /\ fps = <<0, 1>>
    /\ loaded = -1
    /\ mpc = "unstarted"
    /\ wake = 0
    /\ elapsed_time = 0
    /\ now = 0
    /\ audio_queue = <<>>
    /\ timers = {}
    /\ detected = 0
    /\ framesDone = 0
    /\ reported = 0

\* leaving the try block: the except clauses only log, then finally runs.
\* An interrupted `frame_count += 1` never stores.
CLeaveTry(kind) ==
    /\ cpc' = "finally"
    /\ cexit' = kind
    /\ loaded' = -1

\* line 21: picam2 = Picamera2()
Create ==
    /\ cpc = "create"
    /\ \/ /\ picam2Bound' = TRUE
          /\ cpc' = "start"
          /\ UNCHANGED <<cexit, loaded>>
       \/ /\ CLeaveTry("exception")
          /\ UNCHANGED picam2Bound
    /\ UNCHANGED <<stops, stopRaised, frame, frame_count, start_time, fps, mpc,
                   wake, elapsed_time, now, audio_queue, timers, detected,
                   framesDone, reported>>

\* lines 24-30: configure and start the camera
Start ==
    /\ cpc = "start"
    /\ \/ /\ cpc' = "setup"
          /\ UNCHANGED <<cexit, loaded>>
       \/ CLeaveTry("exception")
    /\ UNCHANGED <<picam2Bound, stops, stopRaised, frame, frame_count,
                   start_time, fps, mpc, wake, elapsed_time, now, audio_queue,
                   timers, detected, framesDone, reported>>

\* lines 33-62: detector set-up, the counters, the update_fps thread, img_dir
Setup ==
    /\ cpc = "setup"
    /\ frame_count' = 0
    /\ start_time' = now
    /\ fps' = <<0, 1>>
    /\ mpc' = "sleep"
    /\ wake' = now + FPS_SLEEP
    /\ cpc' = "capture"
    /\ UNCHANGED <<picam2Bound, stops, stopRaised, cexit, frame, loaded,
                   elapsed_time, now, audio_queue, timers, detected,
                   framesDone, reported>>

CaptureEmptyProcessed ==
    /\ cpc = "capture"
    /\ \/ /\ framesDone < MaxFrames
          /\ \E f \in {"empty", "plain", "markers"} : frame' = f
          /\ cpc' = "detect"
          /\ UNCHANGED <<cexit, loaded>>
       \/ /\ CLeaveTry("exception")
          /\ UNCHANGED frame
    /\ UNCHANGED <<picam2Bound, stops, stopRaised, frame_count, start_time,
                   fps, mpc, wake, elapsed_time, now, audio_queue, timers,
                   detected, framesDone, reported>>

\* lines 66-71: capture a frame; an empty one is skipped with `continue`
Capture ==
    /\ cpc = "capture"
    /\ \/ /\ frame' = "empty"
          /\ UNCHANGED <<cpc, cexit, loaded>>
       \/ /\ framesDone < MaxFrames
          /\ \E f \in {"plain", "markers"} : frame' = f
          /\ cpc' = "detect"
          /\ UNCHANGED <<cexit, loaded>>
       \/ \* picam2.capture_array raised
          /\ CLeaveTry("exception")
          /\ UNCHANGED frame
    /\ UNCHANGED <<picam2Bound, stops, stopRaised, frame_count, start_time,
                   fps, mpc, wake, elapsed_time, now, audio_queue, timers,
                   detected, framesDone, reported>>

\* lines 74-80, 93-94: grayscale conversion, detectMarkers, `ids is not None`
Detect ==
    /\ cpc = "detect"
    /\ \/ /\ frame = "markers"
          /\ detected' = detected + 1
          /\ cpc' = "imwrite"
          /\ UNCHANGED <<cexit, loaded>>
       \/ /\ frame = "plain"
          /\ cpc' = "count_load"
          /\ UNCHANGED <<cexit, loaded, detected>>
       \/ \* cvtColor or detectMarkers raised
          /\ CLeaveTry("exception")
          /\ UNCHANGED detected
    /\ UNCHANGED <<picam2Bound, stops, stopRaised, frame, frame_count,
                   start_time, fps, mpc, wake, elapsed_time, now, audio_queue,
                   timers, framesDone, reported>>

\* lines 81-86: draw the markers and write the image
Imwrite ==
    /\ cpc = "imwrite"
    /\ \/ /\ cpc' = "put"
          /\ UNCHANGED <<cexit, loaded>>
       \/ CLeaveTry("exception")
    /\ UNCHANGED <<picam2Bound, stops, stopRaised, frame, frame_count,
                   start_time, fps, mpc, wake, elapsed_time, now, audio_queue,
                   timers, detected, framesDone, reported>>

\* line 89: audio_queue.put("PLAY_AR_SOUND")
PutPlay ==
    /\ cpc = "put"
    /\ \/ /\ audio_queue' = Append(audio_queue, PLAY)
          /\ cpc' = "timer"
          /\ UNCHANGED <<cexit, loaded>>
       \/ /\ CLeaveTry("exception")
          /\ UNCHANGED audio_queue
    /\ UNCHANGED <<picam2Bound, stops, stopRaised, frame, frame_count,
                   start_time, fps, mpc, wake, elapsed_time, now, timers,
                   detected, framesDone, reported>>

\* line 92: threading.Timer(2.0, ...).start()
StartTimerCoalescing ==
    /\ cpc = "timer"
    /\ timers' = {[id |-> Count(audio_queue, PLAY), started |-> now]}
    /\ cpc' = "count_load"
    /\ UNCHANGED <<picam2Bound, stops, stopRaised, cexit, frame, frame_count,
                   start_time, fps, loaded, mpc, wake, elapsed_time, now,
                   audio_queue, detected, framesDone, reported>>

StartTimer ==
    /\ cpc = "timer"
    /\ timers' = timers \cup {[id |-> Count(audio_queue, PLAY), started |-> now]}
    /\ cpc' = "count_load"
    /\ UNCHANGED <<picam2Bound, stops, stopRaised, cexit, frame, frame_count,
                   start_time, fps, loaded, mpc, wake, elapsed_time, now,
                   audio_queue, detected, framesDone, reported>>

\* line 97, first half of `frame_count += 1`: load frame_count
CountLoad ==
    /\ cpc = "count_load"
    /\ loaded' = frame_count
    /\ cpc' = "count_store"
    /\ UNCHANGED <<picam2Bound, stops, stopRaised, cexit, frame, frame_count,
                   start_time, fps, mpc, wake, elapsed_time, now, audio_queue,
                   timers, detected, framesDone, reported>>

\* line 97, second half: store the sum
CountStore ==
    /\ cpc = "count_store"
    /\ frame_count' = loaded + 1
    /\ loaded' = -1
    /\ framesDone' = framesDone + 1
    /\ cpc' = "capture"
    /\ UNCHANGED <<picam2Bound, stops, stopRaised, cexit, frame, start_time,
                   fps, mpc, wake, elapsed_time, now, audio_queue, timers,
                   detected, reported>>

\* line 99: KeyboardInterrupt raised anywhere inside the try block
CInterrupt ==
    /\ cpc \in CTryPcs
    /\ CLeaveTry("interrupt")
    /\ UNCHANGED <<picam2Bound, stops, stopRaised, frame, frame_count,
                   start_time, fps, mpc, wake, elapsed_time, now, audio_queue,
                   timers, detected, framesDone, reported>>

StopNeededUnlessError == picam2Bound /\ cexit # "exception"

\* line 105: 'picam2' in locals()
StopNeeded == picam2Bound

FinallyCancelsTimers ==
    /\ cpc = "finally"
    /\ IF StopNeeded
       THEN /\ stops' = stops + 1
            /\ \E raised \in BOOLEAN : stopRaised' = raised
       ELSE UNCHANGED <<stops, stopRaised>>
    /\ timers' = {}
    /\ cpc' = "destroy"
    /\ UNCHANGED <<picam2Bound, cexit, frame, frame_count, start_time, fps,
                   loaded, mpc, wake, elapsed_time, now, audio_queue,
                   detected, framesDone, reported>>

\* lines 105-110: picam2.stop() inside the inner try
Finally ==
    /\ cpc = "finally"
    /\ IF StopNeeded
       THEN /\ stops' = stops + 1
            /\ \E raised \in BOOLEAN : stopRaised' = raised
       ELSE UNCHANGED <<stops, stopRaised>>
    /\ cpc' = "destroy"
    /\ UNCHANGED <<picam2Bound, cexit, frame, frame_count, start_time, fps,
                   loaded, mpc, wake, elapsed_time, now, audio_queue, timers,
                   detected, framesDone, reported>>

\* lines 111-112: cv2.destroyAllWindows(), then the function returns
Destroy ==
    /\ cpc = "destroy"
    /\ cpc' = "returned"
    /\ UNCHANGED <<picam2Bound, stops, stopRaised, cexit, frame, frame_count,
                   start_time, fps, loaded, mpc, wake, elapsed_time, now,
                   audio_queue, timers, detected, framesDone, reported>>

\* KeyboardInterrupt inside the finally block: nothing catches it
CInterruptFinally ==
    /\ cpc \in CFinallyPcs
    /\ cpc' = "raised"
    /\ UNCHANGED <<picam2Bound, stops, stopRaised, cexit, frame, frame_count,
                   start_time, fps, loaded, mpc, wake, elapsed_time, now,
                   audio_queue, timers, detected, framesDone, reported>>

----------------------------------------------------------------------------
(* update_fps, the daemon thread of camera_control *)

\* lines 45-47: the sleep ends, elapsed_time is computed and tested
MonitorWake ==
    /\ mpc = "sleep"
    /\ now >= wake
    /\ elapsed_time' = now - start_time
    /\ IF now - start_time > 0
       THEN /\ mpc' = "report"
            /\ UNCHANGED wake
       ELSE /\ mpc' = "sleep"
            /\ wake' = now + FPS_SLEEP
    /\ UNCHANGED <<cpc, picam2Bound, stops, stopRaised, cexit, frame,
                   frame_count, start_time, fps, loaded, now, audio_queue,
                   timers, detected, framesDone, reported>>

\* lines 48-49: fps = frame_count / elapsed_time, logged
MonitorReport ==
    /\ mpc = "report"
    /\ fps' = <<frame_count, elapsed_time>>
    /\ reported' = reported + frame_count
    /\ mpc' = "reset_count"
    /\ UNCHANGED <<cpc, picam2Bound, stops, stopRaised, cexit, frame,
                   frame_count, start_time, loaded, wake, elapsed_time, now,
                   audio_queue, timers, detected, framesDone>>

\* line 50: frame_count = 0
MonitorResetCount ==
    /\ mpc = "reset_count"
    /\ frame_count' = 0
    /\ mpc' = "reset_start"
    /\ UNCHANGED <<cpc, picam2Bound, stops, stopRaised, cexit, frame,
                   start_time, fps, loaded, wake, elapsed_time, now,
                   audio_queue, timers, detected, framesDone, reported>>

\* lines 51, 45: start_time = time.time(), then the next sleep begins
MonitorResetStart ==
    /\ mpc = "reset_start"
    /\ start_time' = now
    /\ wake' = now + FPS_SLEEP
    /\ mpc' = "sleep"
    /\ UNCHANGED <<cpc, picam2Bound, stops, stopRaised, cexit, frame,
                   frame_count, fps, loaded, elapsed_time, now, audio_queue,
                   timers, detected, framesDone, reported>>

----------------------------------------------------------------------------
(* the timers of line 92 and the clock *)

TimerDueAtOnce(t) == t.started

\* threading.Timer(2.0, f): f runs no earlier than 2.0 s after start()
TimerDue(t) == t.started + STOP_DELAY

\* line 92: lambda: audio_queue.put("STOP_AR_SOUND"), run by the timer thread
TimerFire ==
    /\ \E t \in timers :
          /\ now >= TimerDue(t)
          /\ timers' = timers \ {t}
          /\ audio_queue' = Append(audio_queue, STOP)
    /\ UNCHANGED <<cpc, picam2Bound, stops, stopRaised, cexit, frame,
                   frame_count, start_time, fps, loaded, mpc, wake,
                   elapsed_time, now, detected, framesDone, reported>>

\* time.time() advances
Tick ==
    /\ now < MaxTime
    /\ now' = now + 1
    /\ UNCHANGED <<cpc, picam2Bound, stops, stopRaised, cexit, frame,
                   frame_count, start_time, fps, loaded, mpc, wake,
                   elapsed_time, audio_queue, timers, detected, framesDone,
                   reported>>

\* time.time() goes on advancing while a timer waits for its 2 s
TickPending ==
    /\ now >= MaxTime
    /\ \E t \in timers : now < TimerDue(t)
    /\ now' = now + 1
    /\ UNCHANGED <<cpc, picam2Bound, stops, stopRaised, cexit, frame,
                   frame_count, start_time, fps, loaded, mpc, wake,
                   elapsed_time, audio_queue, timers, detected, framesDone,
                   reported>>

----------------------------------------------------------------------------
(* The specifications *)

\* the dead zone and the mixer are at rest outside MixerSpec
MRest ==
    /\ axes = <<0, 0, 0>>
    /\ filtered = <<>>
    /\ passes = 0
    /\ wheel = <<>>

Init == JInit /\ CInit /\ MRest

Next ==
    \/ InitMotor /\ UNCHANGED <<cvars, mvars>>
    \/ InitServo /\ UNCHANGED <<cvars, mvars>>
    \/ InitJoystick /\ UNCHANGED <<cvars, mvars>>
    \/ ServoStart /\ UNCHANGED <<cvars, mvars>>
    \/ Poll /\ UNCHANGED <<cvars, mvars>>
    \/ ProcessEvent /\ UNCHANGED <<cvars, mvars>>
    \/ EndFor /\ UNCHANGED <<cvars, mvars>>
    \/ Drive /\ UNCHANGED <<cvars, mvars>>
    \/ Interrupt /\ UNCHANGED <<cvars, mvars>>
    \/ FinallyMotor /\ UNCHANGED <<cvars, mvars>>
    \/ FinallyServo /\ UNCHANGED <<cvars, mvars>>
    \/ PygameQuit /\ UNCHANGED <<cvars, mvars>>
    \/ InterruptFinally /\ UNCHANGED <<cvars, mvars>>

\* joystick_control
Spec == Init /\ [][Next]_vars

CamNext ==
    \/ Create /\ UNCHANGED <<jvars, mvars>>
    \/ Start /\ UNCHANGED <<jvars, mvars>>
    \/ Setup /\ UNCHANGED <<jvars, mvars>>
    \/ Capture /\ UNCHANGED <<jvars, mvars>>
    \/ Detect /\ UNCHANGED <<jvars, mvars>>
    \/ Imwrite /\ UNCHANGED <<jvars, mvars>>
    \/ PutPlay /\ UNCHANGED <<jvars, mvars>>
    \/ StartTimer /\ UNCHANGED <<jvars, mvars>>
    \/ CountLoad /\ UNCHANGED <<jvars, mvars>>
    \/ CountStore /\ UNCHANGED <<jvars, mvars>>
    \/ CInterrupt /\ UNCHANGED <<jvars, mvars>>
    \/ Finally /\ UNCHANGED <<jvars, mvars>>
    \/ Destroy /\ UNCHANGED <<jvars, mvars>>
    \/ CInterruptFinally /\ UNCHANGED <<jvars, mvars>>
    \/ TimerFire /\ UNCHANGED <<jvars, mvars>>
    \/ Tick /\ UNCHANGED <<jvars, mvars>>

\* camera_control with its timers; the update_fps thread, which reads and
\* writes only frame_count, start_time and fps, is left to CamFpsSpec
CamSpec == Init /\ [][CamNext]_vars

CamLiveNext ==
    \/ CamNext
    \/ TickPending /\ UNCHANGED <<jvars, mvars>>

\* camera_control with its timers under fairness: time passes, and a timer
\* thread whose delay has elapsed gets to run, also after the function has
\* returned (threading.Timer threads are not daemon threads)
CamLiveSpec ==
    /\ Init
    /\ [][CamLiveNext]_vars
    /\ WF_vars(TimerFire /\ UNCHANGED <<jvars, mvars>>)
    /\ WF_vars((Tick \/ TickPending) /\ UNCHANGED <<jvars, mvars>>)

CamFpsNext ==
    \/ CamNext
    \/ MonitorWake /\ UNCHANGED <<jvars, mvars>>
    \/ MonitorReport /\ UNCHANGED <<jvars, mvars>>
    \/ MonitorResetCount /\ UNCHANGED <<jvars, mvars>>
    \/ MonitorResetStart /\ UNCHANGED <<jvars, mvars>>

\* camera_control with its timers and the update_fps thread
CamFpsSpec == Init /\ [][CamFpsNext]_vars

----------------------------------------------------------------------------
(* The dead zone and the mixer applied to every reading of the grid *)

MixerInit ==
    /\ JInit
    /\ CInit
    /\ axes \in AxisValues \X AxisValues \X AxisValues
    /\ filtered = <<>>
    /\ passes = 0
    /\ wheel = <<>>

\* lines 109-114, applied to the raw readings
Filter ==
    /\ passes = 0
    /\ filtered' = <<DeadZone(axes[1], DEAD_ZONE_MOVEMENT),
                     DeadZone(axes[2], DEAD_ZONE_MOVEMENT),
                     DeadZone(axes[3], DEAD_ZONE_TURN)>>
    /\ passes' = 1
    /\ UNCHANGED <<axes, wheel>>

\* lines 109-114, applied to their own result
FilterAgain ==
    /\ passes = 1
    /\ filtered' = <<DeadZone(filtered[1], DEAD_ZONE_MOVEMENT),
                     DeadZone(filtered[2], DEAD_ZONE_MOVEMENT),
                     DeadZone(filtered[3], DEAD_ZONE_TURN)>>
    /\ passes' = 2
    /\ UNCHANGED <<axes, wheel>>

\* lines 109-142 for the raw readings
Mix ==
    /\ passes >= 1
    /\ wheel = <<>>
    /\ wheel' = WheelCommand(axes[1], axes[2], axes[3])
    /\ UNCHANGED <<axes, filtered, passes>>

MixerNext ==
    \/ Filter /\ UNCHANGED <<jvars, cvars>>
    \/ FilterAgain /\ UNCHANGED <<jvars, cvars>>
    \/ Mix /\ UNCHANGED <<jvars, cvars>>

MixerSpec == MixerInit /\ [][MixerNext]_vars

----------------------------------------------------------------------------
(* Claims about joystick_control, checked under Spec *)

JoystickDone == jpc \in {"pygame_quit", "returned"}

Issued(outcome) == outcome \in {"accepted", "rejected"}

\* C1: when joystick_control leaves its main loop after the loop has started
\* (QUIT, KeyboardInterrupt or an exception inside a tick), the cleanup issues
\* the all-zero motor command and then the neutral servo command; when they
\* are accepted they are the last commands the collaborators received.
C1_CleanupAfterLoop ==
    (JoystickDone /\ loopStarted) =>
        /\ exitKind \in {"quit", "interrupt", "exception"}
        /\ Issued(cleanupMotor)
        /\ cleanupMotor = "accepted" =>
              (motorLast = ZeroCommand /\ Issued(cleanupServo))
        /\ cleanupServo = "accepted" => servoLast = NeutralCommand

\* an interrupt in the middle of an event batch, right after button 7 put
\* the servo at 160: the cleanup has run and both collaborators are at rest
C1_Witness ==
    /\ jpc = "returned"
    /\ exitKind = "interrupt"
    /\ evIndex = 2 /\ Len(events) = 2
    /\ events[1] = <<"JOYBUTTONDOWN", BUTTON_UP>>
    /\ cleanupMotor = "accepted" /\ cleanupServo = "accepted"
    /\ motorLast = ZeroCommand
    /\ servoLast = NeutralCommand

\* C2: on every return from joystick_control (no joystick, initialisation
\* raised, cleanup motor command rejected included) both the all-zero motor
\* command and the servo reset to neutral are issued.
C2_CleanupOnEveryReturn ==
    jpc = "returned" => (Issued(cleanupMotor) /\ Issued(cleanupServo))

\* C3: a command rejected by the motor or servo collaborator inside a tick
\* does not make the control loop leave `while True:`.
C3_RejectKeepsLooping == rejected # <<>> => jpc \in LoopPcs

InRange(cmd) == \A i \in 1..4 : -MAX_PWM <= cmd[i] /\ cmd[i] <= MAX_PWM

\* C4: each of the four duty values passed to motor.setMotorModel, in a tick
\* or in the cleanup, accepted or rejected, lies in [-MAX_PWM, MAX_PWM].
C4_DutyWithinMaxPwm ==
    /\ motorLast # <<>> => InRange(motorLast)
    /\ (rejected # <<>> /\ rejected[1] = "motor") => InRange(Tail(rejected))

\* both sides saturated: the unclamped sums lie outside the range
C4_Witness ==
    /\ jpc = "poll"
    /\ motorLast = <<MAX_PWM, MAX_PWM, -MAX_PWM, -MAX_PWM>>

UpCommand == <<SERVO_NECK_CHANNEL, SERVO_NECK_UP>>
DownCommand == <<SERVO_NECK_CHANNEL, SERVO_NECK_DOWN>>

\* this step applies `event` and the for loop moves on
Applies(event) ==
    /\ jpc = "events"
    /\ evIndex <= Len(events)
    /\ events[evIndex] = event
    /\ evIndex' = evIndex + 1

C9_OnlyMatchingRelease ==
    [][/\ (servoLast = UpCommand /\ Applies(<<"JOYBUTTONUP", BUTTON_DOWN>>))
            => servoLast' = servoLast
       /\ (servoLast = DownCommand /\ Applies(<<"JOYBUTTONUP", BUTTON_UP>>))
            => servoLast' = servoLast]_vars

\* C9 amended: in an extreme state the button-up of either mapped button
\* (6 or 7) resets the servo to NEUTRAL, whichever button-down put it there;
\* the button-up of any other button leaves the servo state unchanged.
C9_AnyMappedRelease ==
    [][/\ \A b \in {BUTTON_DOWN, BUTTON_UP} :
            (servoLast \in {UpCommand, DownCommand}
                /\ Applies(<<"JOYBUTTONUP", b>>))
            => servoLast' = NeutralCommand
       /\ \A b \in Buttons \ {BUTTON_DOWN, BUTTON_UP} :
            Applies(<<"JOYBUTTONUP", b>>) => servoLast' = servoLast]_vars

\* button 7 was pressed and button 6 released in this tick: neutral again
C9_Witness ==
    /\ jpc = "events"
    /\ events = <<<<"JOYBUTTONDOWN", BUTTON_UP>>, <<"JOYBUTTONUP", BUTTON_DOWN>>>>
    /\ evIndex = 3
    /\ servoLast = NeutralCommand

----------------------------------------------------------------------------
(* Claims about camera_control, checked under CamSpec and CamFpsSpec *)

Plays == Count(audio_queue, PLAY)
Stops == Count(audio_queue, STOP)

\* C5 as stated: every frame in which markers are detected has put exactly
\* one START on the queue once its iteration is past line 89.
C5_StartPerDetection == cpc \notin {"imwrite", "put"} => Plays = detected

\* positions at which no iteration is inside the branch of lines 81-92
BetweenDetections == {"capture", "detect", "count_load", "count_store"}

\* C5 amended: every frame in which markers are detected and whose iteration
\* is not aborted by an exception or a KeyboardInterrupt before line 92 has
\* run puts exactly one START on the queue in that iteration and starts
\* exactly one timer, which puts exactly one STOP, never earlier than 2 s
\* after it was started; nothing else puts a command on the queue, so a frame
\* without markers and an aborted iteration put no STOP and at most the START.
C5_StartThenDelayedStop ==
    [][/\ (cpc' \in BetweenDetections) =>
            (Plays' = detected' /\ Stops' + Cardinality(timers') = Plays')
       /\ Stops' + Cardinality(timers') <= Plays'
       /\ Plays' <= detected'
       /\ audio_queue' # audio_queue =>
            \/ /\ cpc = "put" /\ frame = "markers"
               /\ audio_queue' = Append(audio_queue, PLAY)
               /\ timers' = timers
            \/ /\ audio_queue' = Append(audio_queue, STOP)
               /\ \E t \in timers :
                     /\ timers' = timers \ {t}
                     /\ now >= t.started + STOP_DELAY]_vars

\* one detection, its START, and its STOP once the delay has passed
C5_Witness ==
    /\ detected = 1
    /\ audio_queue = <<PLAY, STOP>>
    /\ timers = {}
    /\ now >= STOP_DELAY

\* C6: the frame loop's read-then-write of frame_count (line 97) and the
\* monitor's read-then-reset of frame_count and start_time (lines 46-51)
\* never interleave.
C6_MutualExclusion ==
    ~(cpc = "count_store" /\ mpc \in {"report", "reset_count", "reset_start"})

\* C7: every completed frame is counted in exactly one reported window: when
\* neither thread is inside its access, the frames reported so far and the
\* frames of the open window add up to the frames completed.
C7_EveryFrameCountedOnce ==
    (cpc \notin {"count_store"} /\ mpc = "sleep") =>
        reported + frame_count = framesDone

\* C10: once the camera object exists, every return of camera_control has
\* called picam2.stop() exactly once, also when stop() itself raised; stop()
\* is never called inside the try block nor twice.
C10_CameraStoppedOnce ==
    /\ (cpc = "returned" /\ picam2Bound) => stops = 1
    /\ cpc \in CTryPcs => stops = 0
    /\ stops <= 1

\* the queue put of a detection raised, and then stop() raised as well
C10_Witness ==
    /\ cpc = "returned"
    /\ cexit = "exception"
    /\ detected = 1 /\ Plays = 0
    /\ stopRaised
    /\ stops = 1


----------------------------------------------------------------------------
(* Claims about the dead zone and the mixer, checked under MixerSpec *)

\* int() of the exact quotient n / den: the floor, moved up by one when the
\* quotient is negative and not whole
TowardZero(n, den) ==
    LET q == n \div den
    IN  IF n < 0 /\ q * den # n THEN q + 1 ELSE q

RefClamp(v) == IF v > 4095 THEN 4095 ELSE IF v < -4095 THEN -4095 ELSE v

\* the reference mixer on the filtered inputs y = -left_vertical, x, r in
\* units of 1/AxisScale, with MAX_PWM = 4095 and turnScale = 1/2
RefMixer(y, x, r) ==
    LET dutyY == TowardZero(y * 4095, AxisScale)
        dutyX == TowardZero(x * 4095, AxisScale)
        dutyR == TowardZero(r * 4095, 2 * AxisScale)
        left  == RefClamp(dutyY + dutyX + dutyR)
        right == RefClamp(dutyY - dutyX - dutyR)
    IN  <<left, left, right, right>>

\* C11: for every reading of the grid the wheel command handed to
\* setMotorModel equals the reference mixer on the filtered inputs, with
\* FL = BL and FR = BR; full forward gives 4095 on all four wheels and full
\* turn gives 2047 on the left and -2047 on the right.
C11_WheelCommandIsReferenceMixer ==
    wheel # <<>> =>
        LET y == -filtered[1]
            x == filtered[2]
            r == filtered[3]
        IN  /\ wheel = RefMixer(y, x, r)
            /\ wheel[1] = wheel[2]
            /\ wheel[3] = wheel[4]
            /\ (y = AxisScale /\ x = 0 /\ r = 0) =>
                   wheel = <<4095, 4095, 4095, 4095>>
            /\ (y = 0 /\ x = 0 /\ r = AxisScale) =>
                   wheel = <<2047, 2047, -2047, -2047>>

\* the full turn in place has been mixed
C11_Witness ==
    /\ axes = <<0, 0, AxisScale>>
    /\ wheel = <<2047, 2047, -2047, -2047>>

\* the value the mixer uses for the raw reading v: 0 below one fifth of full
\* deflection, v from there on
RefFilter(v) == IF 5 * Abs(v) < AxisScale THEN 0 ELSE v

\* C12: on each of the three axes the filtered value is 0 when the raw value
\* is below the threshold 0.2 and the raw value otherwise, a second pass of
\* the filter changes nothing, and the forward axis enters the mixer with
\* its sign inverted.
C12_DeadZoneFilter ==
    /\ [](passes >= 1 => \A i \in 1..3 : filtered[i] = RefFilter(axes[i]))
    /\ [][passes = 1 /\ passes' = 2 => filtered' = filtered]_vars
    /\ []((wheel # <<>> /\ filtered[2] = 0 /\ filtered[3] = 0) =>
              /\ wheel[1] = TowardZero((-filtered[1]) * 4095, AxisScale)
              /\ wheel[1] * axes[1] <= 0)

\* one reading below the threshold, one on it, one at full deflection, after
\* the second pass of the filter
C12_Witness ==
    /\ 5 * Abs(axes[1]) < AxisScale /\ axes[1] # 0
    /\ 5 * Abs(axes[2]) = AxisScale
    /\ axes[3] = -AxisScale
    /\ passes = 2
    /\ filtered = <<0, axes[2], axes[3]>>
    /\ wheel # <<>>

----------------------------------------------------------------------------
(* Further claims about camera_control *)

\* C13 as stated: once every timer has fired, n detections have put exactly
\* n START and n STOP commands on the queue.
C13_StartAndStopPerDetection ==
    (timers = {} /\ cpc \notin {"imwrite", "put", "timer"}) =>
        (Plays = detected /\ Stops = detected)

\* C13 amended: every detection whose iteration runs through line 92 starts
\* a timer of its own next to the pending ones; a timer leaves the pending
\* set only by firing, which puts its STOP; so between two detections of an
\* unaborted loop, once all timers have fired, the queue holds as many START
\* and as many STOP commands as there were detections.
C13_IndependentStops ==
    [][/\ timers' # timers =>
            \/ /\ cpc = "timer"
               /\ timers \subseteq timers'
               /\ Cardinality(timers') = Cardinality(timers) + 1
               /\ audio_queue' = audio_queue
            \/ /\ \E t \in timers : timers' = timers \ {t}
               /\ audio_queue' = Append(audio_queue, STOP)
       /\ (cpc = "timer" /\ cpc' = "count_load") => timers' # timers
       /\ (cpc' \in BetweenDetections /\ timers' = {}) =>
            (Plays' = detected' /\ Stops' = detected')]_vars

\* two detections inside one delay window: the STOP of the first is put
\* after the START of the second, and both STOPs arrive
C13_Witness ==
    /\ detected = 2
    /\ audio_queue = <<PLAY, PLAY, STOP, STOP>>
    /\ timers = {}
    /\ cpc \in BetweenDetections

\* C14: capturing an empty frame leaves the loop at its head, still inside
\* the try block, with the queue, the timers, the detections and the frame
\* counters as they were; detection, drawing and writing the image, the put
\* and the timer are only ever run for a frame that is not empty.
C14_EmptyFrameSkipped ==
    /\ [](cpc \in {"detect", "count_load", "count_store"} => frame # "empty")
    /\ [](cpc \in {"imwrite", "put", "timer"} => frame = "markers")
    /\ [][(frame' = "empty" /\ frame # "empty") =>
            /\ cpc = "capture" /\ cpc' = "capture"
            /\ cexit' = "none"
            /\ audio_queue' = audio_queue
            /\ timers' = timers
            /\ detected' = detected
            /\ frame_count' = frame_count
            /\ framesDone' = framesDone]_vars

\* an empty frame captured after a detection whose timer is still pending
C14_Witness ==
    /\ frame = "empty"
    /\ cpc = "capture"
    /\ cexit = "none"
    /\ detected = 1
    /\ audio_queue = <<PLAY>>
    /\ Cardinality(timers) = 1

----------------------------------------------------------------------------
(* Further claims about joystick_control *)

\* positions inside one tick of the loop, after pygame.event.get()
InTick == {"events", "drive"}

UnmappedEvents ==
    {e \in EventKinds :
        \/ e[1] = "JOYHATMOTION"
        \/ /\ e[1] \in {"JOYBUTTONDOWN", "JOYBUTTONUP"}
           /\ e[2] \notin {6, 7}}

----------------------------------------------------------------------------
(* Claims about the audio queue over time, checked under CamLiveSpec *)

\* in every prefix of the queue there are at most as many STOPs as STARTs
PrefixBalanced ==
    \A n \in 0..Len(audio_queue) :
        Count(SubSeq(audio_queue, 1, n), STOP)
            <= Count(SubSeq(audio_queue, 1, n), PLAY)

====
